---- MODULE Spec2Model ----
(***************************************************************************)
(* A model of DB-Playground (src/app.py, src/reset_db.py): a Streamlit     *)
(* page that shows SQL practice questions, runs the learner's SQL against  *)
(* a shared SQLite file, compares the result with a reference query and    *)
(* records graded attempts in the USER_HISTORY table.                      *)
(*                                                                         *)
(* Streamlit re-runs the whole script on every interaction: a widget       *)
(* callback (prev_question, next_question, update_index) runs first, then  *)
(* the script from top to bottom.  Each action below is one such re-run.   *)
(***************************************************************************)
EXTENDS Integers, Sequences, FiniteSets

VARIABLES
    current_index,  \* st.session_state.current_index
    N,              \* len(questions) as loaded by the last re-run (0: st.stop())
    db,             \* review.db: what each table query yields right now
    now,            \* the database clock, in CURRENT_TIMESTAMP ticks (seconds)
    ledger,         \* the rows of USER_HISTORY, in insert order
    event,          \* the interaction the last re-run served
    caller,         \* run_query_with_timeout: where its caller stands
    worker,         \* run_query_with_timeout: the pool's worker thread
    clock,          \* run_query_with_timeout: seconds since executor.submit
    query,          \* run_query_with_timeout: the submitted query's behaviour
    ret             \* run_query_with_timeout: the value handed to the caller

appVars == <<current_index, N, db, now, ledger, event>>
timeoutVars == <<caller, worker, clock, query, ret>>
vars == <<current_index, N, db, now, ledger, event, caller, worker, clock, query, ret>>

(***************************************************************************)
(* Bounds of the model.                                                    *)
(***************************************************************************)
MaxQuestions == 2   \* entries of answers.json
MaxLedger == 2      \* rows of USER_HISTORY
MaxTime == 1        \* CURRENT_TIMESTAMP ticks
MaxRows == 2        \* rows of a result set
MaxDuration == 4    \* seconds a terminating query may take

(***************************************************************************)
(* Python's None, for an absent error string or error_message.             *)
(***************************************************************************)
None == "<None>"

(***************************************************************************)
(* Result sets (pandas DataFrames as read_sql_query returns them).         *)
(* A value is an SQLite INTEGER or TEXT value; a frame has its column      *)
(* names and its rows, each row a tuple with one value per column.         *)
(***************************************************************************)
IntValues == {0, 1}
Values == [t : {"int"}, v : IntValues] \cup [t : {"text"}, v : {0}]
ColCounts == {1, 2}

NaturalNames(k) == [i \in 1..k |-> IF i = 1 THEN "sno" ELSE "sname"]
AliasNames(k) == [i \in 1..k |-> "x"]

SeqsUpTo(S, n) == UNION {[1..m -> S] : m \in 0..n}

RowSeqs(k) == SeqsUpTo([1..k -> Values], MaxRows)

ReferenceFrames ==
    UNION {{[cols |-> NaturalNames(k), rows |-> r] : r \in RowSeqs(k)} : k \in ColCounts}

LearnerFrames ==
    UNION {{[cols |-> c, rows |-> r] : c \in {NaturalNames(k), AliasNames(k)}, r \in RowSeqs(k)}
           : k \in ColCounts}

NoDf == [cols |-> <<>>, rows |-> <<>>]

\* run_query's pair (df, None) or (None, str(e)).
Ok(df) == [df |-> df, error |-> None]
Err(e) == [df |-> NoDf, error |-> e]

(***************************************************************************)
(* pandas: sort_values(by=all columns), reset_index, assert_frame_equal.   *)
(***************************************************************************)
IsText(x) == x.t = "text"

\* Python's "<" on two cell values; numbers sort before text where pandas
\* sorts a mixed column (algorithms._sort_mixed).
ValueLess(x, y) ==
    \/ ~IsText(x) /\ IsText(y)
    \/ IsText(x) = IsText(y) /\ x.v < y.v

\* Lexicographic "<=" on two rows of the same width.
RowLeq(r, s) ==
    \/ r = s
    \/ \E i \in 1..Len(r) :
          /\ \A j \in 1..(i - 1) : r[j] = s[j]
          /\ ValueLess(r[i], s[i])

RECURSIVE InsertRow(_, _)
InsertRow(r, sorted) ==
    IF sorted = <<>> THEN <<r>>
    ELSE IF RowLeq(r, Head(sorted)) THEN <<r>> \o sorted
    ELSE <<Head(sorted)>> \o InsertRow(r, Tail(sorted))

RECURSIVE SortRows(_)
SortRows(rows) ==
    IF rows = <<>> THEN <<>> ELSE InsertRow(Head(rows), SortRows(Tail(rows)))

\* df.columns = range(len(df.columns))
RenameColumns(df) == [df EXCEPT !.cols = [i \in 1..Len(df.cols) |-> i - 1]]

\* sort_values on one column argsorts the column itself, and Python cannot
\* order an int against a str: TypeError.
SortRaises(df) ==
    /\ Len(df.cols) = 1
    /\ \E i, j \in 1..Len(df.rows) : IsText(df.rows[i][1]) # IsText(df.rows[j][1])

\* df.sort_values(by=list(df.columns)).reset_index(drop=True)
SortValuesMutantNoSort(df) == df

SortValues(df) == [df EXCEPT !.rows = SortRows(df.rows)]

\* pd.testing.assert_frame_equal(left, right, check_dtype=False): TRUE when it
\* returns, FALSE when it raises AssertionError (shape, column labels, values).
AssertFrameEqualMutantNoShape(left, right) ==
    /\ left.cols = right.cols
    /\ \A i \in 1..Len(left.rows) : i <= Len(right.rows) => left.rows[i] = right.rows[i]

AssertFrameEqual(left, right) ==
    /\ Len(left.rows) = Len(right.rows)
    /\ Len(left.cols) = Len(right.cols)
    /\ left.cols = right.cols
    /\ \A i \in 1..Len(left.rows) : left.rows[i] = right.rows[i]

TypeErrorText == "'<' not supported between instances of 'str' and 'int'"
MismatchText == "Result mismatch"
TimeoutSkipText == "Reference answer timeout, validation skipped."

\* Lines 364-382: the try block comparing the two frames; the verdict is the
\* pair (is_correct, error_msg) the handler ends with.
CompareFrames(expected_df, user_df, error_msg) ==
    IF SortRaises(expected_df) \/ SortRaises(user_df)
    THEN [is_correct |-> FALSE, error_msg |-> TypeErrorText]
    ELSE IF AssertFrameEqual(SortValues(RenameColumns(expected_df)),
                             SortValues(RenameColumns(user_df)))
    THEN [is_correct |-> TRUE, error_msg |-> error_msg]
    ELSE [is_correct |-> FALSE, error_msg |-> MismatchText]

(***************************************************************************)
(* The SQL texts of the model and the database they run against.           *)
(***************************************************************************)
RefSql == "SELECT sno FROM STUDENTS"
SlowRefSql == "SELECT COUNT(*) FROM CHOICES a, CHOICES b, CHOICES c"
AliasSql == "SELECT sno AS x FROM STUDENTS ORDER BY sno DESC"
ConstSql == "SELECT 1"
SyntaxErrorSql == "SELEKT * FROM STUDENTS"
BlankSql == "   "
TableQueries == {RefSql, SlowRefSql, AliasSql}
LearnerSqls == {"", BlankSql, SyntaxErrorSql, ConstSql, AliasSql}

SyntaxErrorText == "near \"SELEKT\": syntax error"
NoTableText == "no such table: STUDENTS"
TimeoutText == "Timeout"

IntVal(n) == [t |-> "int", v |-> n]
ConstFrame == [cols |-> <<"1">>, rows |-> <<<<IntVal(1)>>>>]

\* review.db before the seed files were loaded, and after.
UnseededDb == [s \in TableQueries |-> Err(NoTableText)]
SeededDb ==
    [s \in TableQueries |->
        IF s = AliasSql
        THEN Ok([cols |-> AliasNames(1), rows |-> <<<<IntVal(1)>>, <<IntVal(0)>>>>])
        ELSE IF s = RefSql
        THEN Ok([cols |-> NaturalNames(1), rows |-> <<<<IntVal(0)>>, <<IntVal(1)>>>>])
        ELSE Ok([cols |-> <<"COUNT(*)">>, rows |-> <<<<IntVal(1)>>>>])]

timeout_seconds == 2

\* Seconds the database needs for a query.
QuerySeconds(sql, d) ==
    IF sql = SlowRefSql /\ d[sql].error = None THEN timeout_seconds + 1 ELSE 0

run_query(sql, d) ==
    IF sql = SyntaxErrorSql THEN Err(SyntaxErrorText)
    ELSE IF sql = ConstSql THEN Ok(ConstFrame)
    ELSE d[sql]

\* The pair run_query_with_timeout hands back once it returns (the steps of
\* the call itself are the actions of SpecTimeout below).
run_query_with_timeout(sql, d) ==
    IF QuerySeconds(sql, d) > timeout_seconds THEN Err(TimeoutText) ELSE run_query(sql, d)

\* user_sql.strip()
Strip(sql) == IF sql = BlankSql THEN "" ELSE sql

(***************************************************************************)
(* Question Store.                                                         *)
(***************************************************************************)
AnswerSqlOf(id) ==
    IF id = 1 THEN SlowRefSql ELSE IF id = 2 THEN "" ELSE RefSql

load_questions(n) == [i \in 1..n |-> [id |-> i - 1, answer_sql |-> AnswerSqlOf(i - 1)]]

(***************************************************************************)
(* History Ledger.                                                         *)
(***************************************************************************)
\* sqlite3 stores a Python bool as the integer 1 or 0.
AdaptBool(b) == IF b THEN 1 ELSE 0

save_history(L, question_id, user_sql, is_correct, error_message, t) ==
    Append(L, [id |-> Len(L) + 1,
               question_id |-> question_id,
               user_sql |-> user_sql,
               is_correct |-> AdaptBool(is_correct),
               error_message |-> error_message,
               timestamp |-> t])

get_solved_questionsMutantAnyAttempt(L) == {L[i].question_id : i \in 1..Len(L)}

\* SELECT DISTINCT question_id FROM USER_HISTORY WHERE is_correct = 1
get_solved_questions(L) ==
    {L[i].question_id : i \in {j \in 1..Len(L) : L[j].is_correct = 1}}

\* The rows of question_id, in insert order.
RowsOf(L, question_id) == SelectSeq(L, LAMBDA e : e.question_id = question_id)

\* ... WHERE question_id = ? ORDER BY timestamp DESC: every answer SQLite may
\* give; rows with equal timestamps come in an order the query does not fix.
get_history(L, question_id) ==
    LET rows == RowsOf(L, question_id)
        k == Len(rows)
        perms == {p \in [1..k -> 1..k] : \A i, j \in 1..k : i # j => p[i] # p[j]}
    IN  {[i \in 1..k |-> rows[p[i]]] : p \in
            {p \in perms : \A i \in 1..(k - 1) :
                rows[p[i]].timestamp >= rows[p[i + 1]].timestamp}}

(***************************************************************************)
(* Session/Navigation Controller.                                          *)
(***************************************************************************)
prev_question(idx) == IF idx > 0 THEN idx - 1 ELSE idx

next_questionMutantNoGuard(idx, len) == idx + 1

next_question(idx, len) == IF idx < len - 1 THEN idx + 1 ELSE idx

\* question_titles: the solved mark, the 1-based number (the title text
\* itself plays no part in the lookup once the number is in front of it).
question_titles(len, solved_ids) == [i \in 1..len |-> <<(i - 1) \in solved_ids, i>>]

\* question_titles.index(st.session_state.question_list)
update_index(titles, selected_title) ==
    (CHOOSE k \in 1..Len(titles) :
        /\ titles[k] = selected_title
        /\ \A j \in 1..(k - 1) : titles[j] # selected_title) - 1

\* Lines 243-245.
ValidIndex(idx, len) == IF idx >= len THEN 0 ELSE idx

(***************************************************************************)
(* The run/submit handler, lines 321-388.                                  *)
(***************************************************************************)
\* Lines 357-382: the verdict of a submission whose own SQL ran.
JudgeSubmissionMutantNoTimeoutCase(q, user_df, error, d) ==
    IF q.answer_sql = "" THEN [is_correct |-> FALSE, error_msg |-> error]
    ELSE LET expected == run_query_with_timeout(q.answer_sql, d)
         IN  IF expected.df # NoDf
             THEN CompareFrames(expected.df, user_df, error)
             ELSE [is_correct |-> FALSE, error_msg |-> error]

JudgeSubmission(q, user_df, error, d) ==
    IF q.answer_sql = "" THEN [is_correct |-> FALSE, error_msg |-> error]
    ELSE LET expected == run_query_with_timeout(q.answer_sql, d)
         IN  IF expected.error = TimeoutText
             THEN [is_correct |-> FALSE, error_msg |-> TimeoutSkipText]
             ELSE IF expected.df # NoDf
             THEN CompareFrames(expected.df, user_df, error)
             ELSE [is_correct |-> FALSE, error_msg |-> error]

\* Line 355: only a click on "submit" compares and records.
RecordsAttemptMutantAnyClick(run_clicked, submit_clicked) == run_clicked \/ submit_clicked

RecordsAttempt(run_clicked, submit_clicked) == submit_clicked

\* The ledger the handler leaves behind.
RunSubmitHandler(run_clicked, submit_clicked, user_sql, q, d, L, t) ==
    IF ~(run_clicked \/ submit_clicked) THEN L
    ELSE IF Strip(user_sql) = "" THEN L
    ELSE LET user == run_query(user_sql, d)
         IN  IF user.error # None THEN L
             ELSE IF ~RecordsAttempt(run_clicked, submit_clicked) THEN L
             ELSE LET verdict == JudgeSubmission(q, user.df, user.error, d)
                  IN  save_history(L, q.id, user_sql, verdict.is_correct,
                                   verdict.error_msg, t)

(***************************************************************************)
(* Database reset: init_db of app.py (the sidebar button) and of           *)
(* reset_db.py (the command line tool).  Both run the seed files that      *)
(* exist; the app also runs CREATE TABLE IF NOT EXISTS USER_HISTORY.       *)
(* Neither statement touches the rows of USER_HISTORY.                     *)
(***************************************************************************)
init_db(d, seeds_present) == IF seeds_present THEN SeededDb ELSE d

\* What cursor.executescript(content) of the seed files school/*.sql does to
\* the rows of USER_HISTORY: one file per practice table, each dropping,
\* creating and filling that table only.
SeedScripts(L) == L

\* The rows of USER_HISTORY after init_db.
init_db_history(L, seeds_present) == IF seeds_present THEN SeedScripts(L) ELSE L

(***************************************************************************)
(* The application: one action per interaction.                            *)
(***************************************************************************)
Ev(kind, sql, target) == [kind |-> kind, sql |-> sql, target |-> target]

NoQuery == [seconds |-> 0, ends |-> TRUE, result |-> "rows"]

TimeoutIdle ==
    /\ caller = "idle"
    /\ worker = "idle"
    /\ clock = 0
    /\ query = NoQuery
    /\ ret = None

Init ==
    /\ current_index = 0
    /\ N = MaxQuestions
    /\ db = UnseededDb
    /\ now = 0
    /\ ledger = <<>>
    /\ event = Ev("start", "", 0)
    /\ TimeoutIdle

\* Lines 234-245 of a re-run that finds n questions in answers.json, entered
\* with the index idx the callback left.
Script(idx, n) ==
    /\ N' = n
    /\ current_index' = IF n = 0 THEN idx ELSE ValidIndex(idx, n)

PrevClicked ==
    /\ N > 0
    /\ Script(prev_question(current_index), N)
    /\ event' = Ev("prev", "", 0)
    /\ UNCHANGED <<db, now, ledger>>
    /\ UNCHANGED timeoutVars

NextClicked ==
    /\ N > 0
    /\ Script(next_question(current_index, N), N)
    /\ event' = Ev("next", "", 0)
    /\ UNCHANGED <<db, now, ledger>>
    /\ UNCHANGED timeoutVars

RadioChanged(i) ==
    /\ N > 0
    /\ LET titles == question_titles(N, get_solved_questions(ledger))
       IN  Script(update_index(titles, titles[i + 1]), N)
    /\ event' = Ev("jump", "", i)
    /\ UNCHANGED <<db, now, ledger>>
    /\ UNCHANGED timeoutVars

RunClicked(user_sql) ==
    /\ N > 0
    /\ Script(current_index, N)
    /\ ledger' = RunSubmitHandler(TRUE, FALSE, user_sql,
                                  load_questions(N)[current_index + 1], db, ledger, now)
    /\ event' = Ev("run", "", 0)
    /\ UNCHANGED <<db, now>>
    /\ UNCHANGED timeoutVars

SubmitClicked(user_sql) ==
    /\ N > 0
    /\ Len(ledger) < MaxLedger
    /\ Script(current_index, N)
    /\ ledger' = RunSubmitHandler(FALSE, TRUE, user_sql,
                                  load_questions(N)[current_index + 1], db, ledger, now)
    /\ event' = Ev("submit", user_sql, 0)
    /\ UNCHANGED <<db, now>>
    /\ UNCHANGED timeoutVars

ResetClicked(seeds_present) ==
    /\ db' = init_db(db, seeds_present)
    /\ ledger' = init_db_history(ledger, seeds_present)
    /\ Script(current_index, N)
    /\ event' = Ev("reset", "", 0)
    /\ UNCHANGED now
    /\ UNCHANGED timeoutVars

\* python reset_db.py, run beside the application.
CliReset(seeds_present) ==
    /\ db' = init_db(db, seeds_present)
    /\ ledger' = init_db_history(ledger, seeds_present)
    /\ event' = Ev("cli_reset", "", 0)
    /\ UNCHANGED <<current_index, N, now>>
    /\ UNCHANGED timeoutVars

\* A re-run (a page reload, the layout slider) that finds answers.json with
\* n entries.
ReloadQuestions(n) ==
    /\ Script(current_index, n)
    /\ event' = Ev("reload", "", n)
    /\ UNCHANGED <<db, now, ledger>>
    /\ UNCHANGED timeoutVars

\* A second passes on the database clock.
Tick ==
    /\ now < MaxTime
    /\ now' = now + 1
    /\ event' = Ev("tick", "", 0)
    /\ UNCHANGED <<current_index, N, db, ledger>>
    /\ UNCHANGED timeoutVars

Next ==
    \/ PrevClicked
    \/ NextClicked
    \/ \E i \in 0..(N - 1) : RadioChanged(i)
    \/ \E s \in LearnerSqls : RunClicked(s)
    \/ \E s \in LearnerSqls : SubmitClicked(s)
    \/ \E b \in BOOLEAN : ResetClicked(b)
    \/ \E b \in BOOLEAN : CliReset(b)
    \/ \E n \in 0..MaxQuestions : ReloadQuestions(n)
    \/ Tick

Spec == Init /\ [][Next]_vars

(***************************************************************************)
(* The comparison on arbitrary result sets: the database holds any         *)
(* reference result and any learner result, and question 0 is submitted.   *)
(***************************************************************************)
InitVerify ==
    /\ current_index = 0
    /\ N = MaxQuestions
    /\ \E e \in ReferenceFrames, u \in LearnerFrames :
          db = [SeededDb EXCEPT ![RefSql] = Ok(e), ![AliasSql] = Ok(u)]
    /\ now = 0
    /\ ledger = <<>>
    /\ event = Ev("start", "", 0)
    /\ TimeoutIdle

NextVerify == ledger = <<>> /\ SubmitClicked(AliasSql)

SpecVerify == InitVerify /\ [][NextVerify]_vars

(***************************************************************************)
(* run_query_with_timeout, lines 187-195, step by step.  Only the query    *)
(* takes time: a thread that can take a step takes it before the next      *)
(* second passes.                                                          *)
(***************************************************************************)
MaxClock == MaxDuration + 1

InitTimeout ==
    /\ current_index = 0
    /\ N = MaxQuestions
    /\ db = UnseededDb
    /\ now = 0
    /\ ledger = <<>>
    /\ event = Ev("start", "", 0)
    /\ caller = "start"
    /\ worker = "idle"
    /\ clock = 0
    /\ query \in [seconds : 0..MaxDuration, ends : BOOLEAN, result : {"rows", "error"}]
    /\ ret = None

\* executor.submit(run_query, query)
ExecutorSubmit ==
    /\ caller = "start"
    /\ caller' = "waiting"
    /\ worker' = "running"
    /\ UNCHANGED <<clock, query, ret>>
    /\ UNCHANGED appVars

\* run_query returns in the worker thread.
WorkerFinish ==
    /\ worker = "running"
    /\ query.ends
    /\ clock >= query.seconds
    /\ worker' = "done"
    /\ UNCHANGED <<caller, clock, query, ret>>
    /\ UNCHANGED appVars

\* future.result(timeout=timeout_seconds) returns run_query's pair.
FutureResult ==
    /\ caller = "waiting"
    /\ worker = "done"
    /\ ret' = query.result
    /\ caller' = "exiting"
    /\ UNCHANGED <<worker, clock, query>>
    /\ UNCHANGED appVars

\* future.result raises TimeoutError: return None, "Timeout".
FutureTimeout ==
    /\ caller = "waiting"
    /\ worker # "done"
    /\ clock >= timeout_seconds
    /\ ret' = TimeoutText
    /\ caller' = "exiting"
    /\ UNCHANGED <<worker, clock, query>>
    /\ UNCHANGED appVars

\* Leaving the with block: ThreadPoolExecutor.__exit__ is shutdown(wait=True),
\* which joins the worker thread before the return value reaches the caller.
ExecutorShutdown ==
    /\ caller = "exiting"
    /\ worker = "done"
    /\ caller' = "returned"
    /\ UNCHANGED <<worker, clock, query, ret>>
    /\ UNCHANGED appVars

TimePasses ==
    /\ clock < MaxClock
    /\ caller \in {"waiting", "exiting"}
    /\ ~(worker = "running" /\ query.ends /\ clock >= query.seconds)
    /\ ~(caller = "waiting" /\ (worker = "done" \/ clock >= timeout_seconds))
    /\ ~(caller = "exiting" /\ worker = "done")
    /\ clock' = clock + 1
    /\ UNCHANGED <<caller, worker, query, ret>>
    /\ UNCHANGED appVars

NextTimeout ==
    \/ ExecutorSubmit
    \/ WorkerFinish
    \/ FutureResult
    \/ FutureTimeout
    \/ ExecutorShutdown
    \/ TimePasses

SpecTimeout ==
    /\ InitTimeout
    /\ [][NextTimeout]_vars
    /\ WF_vars(ExecutorSubmit)
    /\ WF_vars(WorkerFinish)
    /\ WF_vars(FutureResult)
    /\ WF_vars(FutureTimeout)
    /\ WF_vars(ExecutorShutdown)
    /\ WF_vars(TimePasses)

(***************************************************************************)
(* Properties.                                                             *)
(***************************************************************************)
QuestionIds == 0..(MaxQuestions - 1)

Last(L) == L[Len(L)]

\* The step served a click on "submit" with SQL that is not blank.
SubmitStep == event'.kind = "submit" /\ Strip(event'.sql) # ""

\* C1: every submit with non-empty SQL appends exactly one entry for the
\* current question, whether the SQL runs or fails; when it fails the entry
\* has is_correct = 0 and the error string of run_query as error_message.
C1_SubmitAlwaysRecords ==
    [][SubmitStep =>
        /\ Len(ledger') = Len(ledger) + 1
        /\ SubSeq(ledger', 1, Len(ledger)) = ledger
        /\ Last(ledger').question_id = current_index
        /\ run_query(event'.sql, db).error # None =>
              /\ Last(ledger').is_correct = 0
              /\ Last(ledger').error_message = run_query(event'.sql, db).error]_vars

\* C2: a step that is not a submit (run, previous, next, jump, either
\* database reset, a reload, the clock) leaves the ledger exactly as it was.
C2_OnlySubmitChangesLedger ==
    [][event'.kind # "submit" => ledger' = ledger]_vars

\* A run was served on a seeded database with a ledger that holds entries.
C2_Witness ==
    /\ event.kind = "run"
    /\ ledger # <<>>
    /\ db = SeededDb

Expected == db[RefSql].df
Actual == db[AliasSql].df
Judged == event.kind = "submit" /\ Len(ledger) = 1

Occurrences(r, rows) == Cardinality({i \in 1..Len(rows) : rows[i] = r})

\* Equal up to row order and column naming: as many columns, and every
\* positional tuple as often on one side as on the other.
SameResult(e, u) ==
    /\ Len(e.cols) = Len(u.cols)
    /\ \A r \in [1..Len(e.cols) -> Values] : Occurrences(r, e.rows) = Occurrences(r, u.rows)

\* No column holds both a number and a text.
OneTypePerColumn(df) ==
    \A c \in 1..Len(df.cols) : \A i, j \in 1..Len(df.rows) :
        IsText(df.rows[i][c]) = IsText(df.rows[j][c])

C6_SolvedIffCorrectEntry ==
    /\ [](\A q \in QuestionIds :
            q \in get_solved_questions(ledger)
                <=> \E i \in 1..Len(ledger) :
                        ledger[i].question_id = q /\ ledger[i].is_correct = 1)
    /\ [][/\ get_solved_questions(ledger) \subseteq get_solved_questions(ledger')
          /\ Len(ledger') = Len(ledger) + 1 =>
                get_solved_questions(ledger') =
                    get_solved_questions(ledger) \cup
                        (IF JudgeSubmission(load_questions(N)[current_index + 1],
                                            run_query(event'.sql, db).df, None, db).is_correct
                         THEN {current_index} ELSE {})]_vars

\* One question solved beside an attempt on a question that is not.
C6_Witness ==
    /\ Len(ledger) = 2
    /\ \E q \in QuestionIds : q \in get_solved_questions(ledger)
    /\ \E i \in 1..Len(ledger) : ledger[i].question_id \notin get_solved_questions(ledger)

\* C7: get_history(q) lists the entries of q newest first, the one recorded
\* last at the head, also when several were recorded within one tick of the
\* timestamp; entries of other questions never appear.
C7_NewestFirst ==
    \A q \in QuestionIds : \A h \in get_history(ledger, q) :
        /\ \A i \in 1..Len(h) : h[i].question_id = q
        /\ \A i \in 1..(Len(h) - 1) : h[i].id > h[i + 1].id

\* C8: for a query that runs longer than the limit, or never ends, the
\* caller has its "Timeout" once the limit has elapsed: it is not kept
\* waiting past the limit, and it does get the value.
LongQuery == ~query.ends \/ query.seconds > timeout_seconds

C8_TimeoutReturnsAtLimit ==
    /\ []((LongQuery /\ clock > timeout_seconds) => (caller = "returned" /\ ret = TimeoutText))
    /\ (LongQuery /\ caller = "waiting") ~> (caller = "returned" /\ ret = TimeoutText)

\* C9: a submit whose SQL ran while the reference query failed with a
\* database error records is_correct = 0 and the reference query's error
\* text as error_message.
C9_ReferenceErrorRecorded ==
    [][(/\ SubmitStep
        /\ run_query(event'.sql, db).error = None
        /\ AnswerSqlOf(current_index) # ""
        /\ run_query_with_timeout(AnswerSqlOf(current_index), db).error
              \notin {None, TimeoutText}) =>
        /\ Len(ledger') = Len(ledger) + 1
        /\ Last(ledger').is_correct = 0
        /\ Last(ledger').error_message =
              run_query_with_timeout(AnswerSqlOf(current_index), db).error]_vars

\* C10: with N >= 1 questions current_index stays within 0..N-1; next adds
\* one unless at N-1, previous subtracts one unless at 0, a jump to i sets
\* i, and a re-run that finds the index out of bounds sets it to 0.
C10_IndexInBounds ==
    /\ [](N >= 1 => current_index \in 0..(N - 1))
    /\ [][/\ event'.kind = "next" =>
                current_index' = IF current_index = N - 1 THEN current_index
                                 ELSE current_index + 1
          /\ event'.kind = "prev" =>
                current_index' = IF current_index = 0 THEN current_index
                                 ELSE current_index - 1
          /\ event'.kind = "jump" => current_index' = event'.target
          /\ (event'.kind = "reload" /\ N' >= 1) =>
                current_index' = IF current_index \in 0..(N' - 1) THEN current_index
                                 ELSE 0]_vars

\* "next" was clicked and the index stands on the last question.
C10_Witness ==
    /\ event.kind = "next"
    /\ N = MaxQuestions
    /\ current_index = N - 1

====
